---- MODULE Spec2Model ----
(***************************************************************************)
(* A model of two components of nequip:                                    *)
(*   - nequip/nn/_grad_output.py : GradientOutput (and ForceOutput), the   *)
(*     wrapper that adds gradients of a scalar output to a model's output; *)
(*   - nequip/train/metrics.py   : Metrics, the streaming mae/rmse engine. *)
(* The two components share no state.  SpecGrad runs the wrapper with the  *)
(* metrics variables at rest, SpecMetrics runs the metrics engine with the *)
(* wrapper variables at rest.                                              *)
(***************************************************************************)
EXTENDS Integers, Sequences, FiniteSets, TLC

VARIABLES
    \* ---- GradientOutput ----
    ctor_args,          \* the arguments of the pending GradientOutput(...) call
    wrapper,            \* the constructed GradientOutput, or NoWrapper
    ctor_error,         \* the exception the constructor raised, or "none"
    inputs,             \* the values of the caller's input tensors
    requires_grad,      \* requires_grad flag of each of the caller's input tensors
    pre_requires_grad,  \* the flags as they were when the last forward() began
    fwd_result,         \* how the last forward() ended: "none", "ok" or an exception
    fwd_m,              \* the wrapped model's behaviour in the last forward()
    fwd_data,           \* the dictionary the last forward() returned
    \* ---- Metrics ----
    m_components,       \* the component list of the pending Metrics(...) call
    m_error,            \* the exception the constructor raised, "none", or "pending"
    m_self,             \* the Metrics instance: funcs, kwargs, per_species, running_stats
    m_result,           \* what the last operation returned, when it was current_result()
    fed,                \* how often each example was accumulated since construction or reset
    calls_since,        \* the number of __call__ since construction or the last reset
    after_reset,        \* whether reset() has run
    ever_called,        \* whether __call__ has run
    m_flat,             \* what the last operation returned, when it was flatten_metrics()
    m_solo              \* per component i, a Metrics built from component i alone and
                        \* given the same calls

gradVars == <<ctor_args, wrapper, ctor_error, inputs, requires_grad, pre_requires_grad,
              fwd_result, fwd_m, fwd_data>>

metricsVars == <<m_components, m_error, m_self, m_result, fed, calls_since, after_reset,
                 ever_called, m_flat, m_solo>>

vars == <<gradVars, metricsVars>>

(***************************************************************************)
(* Bounds.                                                                 *)
(***************************************************************************)
MaxWrt == 2      \* longest wrt / out_field list
MaxBatch == 2    \* most examples in one batch
MaxFed == 4      \* most examples accumulated between two resets

(***************************************************************************)
(* Small helpers.                                                          *)
(***************************************************************************)
Range(s) == {s[i] : i \in 1..Len(s)}

SeqsUpTo(S, n) == UNION {[1..m -> S] : m \in 1..n}

(***************************************************************************)
(* GradientOutput: the data dictionary.                                    *)
(* A batch holds two examples; every input tensor has one element per      *)
(* example.  The caller's dictionary has the input keys; the wrapped model *)
(* adds its scalar output OF_KEY and one more output, "feat".              *)
(***************************************************************************)
InKeys == {"pos", "cell"}

OF_KEY == "E"

Examples == {1, 2}

\* the input tensors the caller may hand over
Tensors == {<<0 - 1, 2>>, <<2, 1>>}

\* a value stored in the dictionary: obj tells whether the entry still is the
\* caller's input tensor of that key ("in") or a tensor made during the call
DictEntry(obj, val) == [obj |-> obj, val |-> val]

(***************************************************************************)
(* GradientOutput.__init__                                                 *)
(* A str-or-list argument is [t, v]: t is "str", "list" or "none" and v    *)
(* the names.  A sign argument is [t, v2]: t is "int" or "float" and v2    *)
(* twice its value (so that 0.5 is representable).                         *)
(***************************************************************************)
NoWrapper == [sign2 |-> 0, of |-> "", wrt |-> <<>>, out_field |-> <<>>]

\* float(sign): an int becomes the float of the same value
Float2(sign) == sign.v2

SignOkNoNeg(s2) == s2 \in {2}

\* line 35: assert sign in (1.0, -1.0)
SignOk(s2) == s2 \in {2, 0 - 2}

\* lines 39-42: a single str is wrapped into a one-element list
AsList(a) == a.v

\* line 46: f"d({of})/d({e})"
DefaultOutField(of, wrt) ==
    [i \in 1..Len(wrt) |-> "d(" \o of \o ")/d(" \o wrt[i] \o ")"]

\* lines 33-51; the result is [err, w]
GradientOutputInit(a) ==
    LET sign2 == Float2(a.sign)
        wrt   == AsList(a.wrt)
    IN  IF ~SignOk(sign2)
        THEN [err |-> "AssertionError", w |-> NoWrapper]
        ELSE IF a.out_field.t = "none"
        THEN [err |-> "none",
              w   |-> [sign2 |-> sign2, of |-> a.of, wrt |-> wrt,
                       out_field |-> DefaultOutField(a.of, wrt)]]
        ELSE IF Len(AsList(a.out_field)) # Len(wrt)
        THEN [err |-> "AssertionError", w |-> NoWrapper]
        ELSE [err |-> "none",
              w   |-> [sign2 |-> sign2, of |-> a.of, wrt |-> wrt,
                       out_field |-> AsList(a.out_field)]]

\* ForceOutput(energy_model): lines 111-117
ForceOutputArgs ==
    [of        |-> OF_KEY,
     wrt       |-> [t |-> "str", v |-> <<"pos">>],
     out_field |-> [t |-> "str", v |-> <<"forces">>],
     sign      |-> [t |-> "int", v2 |-> 0 - 2]]

(***************************************************************************)
(* The wrapped model (self.func) and the differentiation engine.           *)
(* The wrapped model is any module; one call of it is described by m:      *)
(*   m.fault  "raise" when it raises, "no_of" when its output lacks the    *)
(*            field `of`, "none" otherwise;                                *)
(*   m.uses   the input fields its scalar output depends on;               *)
(*   m.engine what torch.autograd.grad does for an input the output does   *)
(*            not depend on: "raise", or "none" for a None gradient.       *)
(* Its scalar output for example b is the sum over the used fields k of    *)
(* Weight(k) * x[k][b]^2.                                                  *)
(***************************************************************************)
Weight(k) == IF k = "pos" THEN 1 ELSE 2

RECURSIVE SumOver(_, _)
SumOver(S, f) ==
    IF S = {} THEN 0
    ELSE LET e == CHOOSE e \in S : TRUE IN f[e] + SumOver(S \ {e}, f)

Energy(m, x) ==
    [b \in Examples |-> SumOver(m.uses, [k \in m.uses |-> Weight(k) * x[k][b] * x[k][b]])]

\* line 75: data = self.func(data).  The input tensors stay in the dictionary.
FuncOutput(m, x) ==
    LET base == [k \in InKeys |-> DictEntry("in", x[k])]
                @@ ("feat" :> DictEntry("new", [b \in Examples |-> x["pos"][b] + 1]))
    IN  IF m.fault = "no_of" THEN base
        ELSE (OF_KEY :> DictEntry("new", Energy(m, x))) @@ base

\* line 82: data[self.of].sum()
TensorSum(t) == SumOver(Examples, t)

\* lines 77-85: torch.autograd.grad([data[of].sum()], wrt_tensors); the gradient of
\* the summed scalar with respect to element b of the input tensor of field k
GradOf(m, x, k) == [b \in Examples |-> 2 * Weight(k) * x[k][b]]

Autograd(m, x, wrt) ==
    [i \in 1..Len(wrt) |->
        IF wrt[i] \in m.uses
        THEN [none |-> FALSE, val |-> GradOf(m, x, wrt[i])]
        ELSE [none |-> TRUE, val |-> [b \in Examples |-> 0]]]

(***************************************************************************)
(* GradientOutput.forward                                                  *)
(***************************************************************************)
\* lines 70-73: record each flag, then set it
RECURSIVE SetRequiresGrad(_, _, _, _)
SetRequiresGrad(wrt, i, flags, old) ==
    IF i > Len(wrt) THEN [flags |-> flags, old |-> old]
    ELSE SetRequiresGrad(wrt, i + 1, [flags EXCEPT ![wrt[i]] = TRUE],
                         Append(old, flags[wrt[i]]))

ScaleNoSign(sign2, t) == t

\* line 93: self.sign * grad
Scale(sign2, t) == [b \in Examples |-> (sign2 \div 2) * t[b]]

RECURSIVE WriteGradsSkipNone(_, _, _, _, _)
WriteGradsSkipNone(out_field, grads, sign2, i, data) ==
    IF i > Len(out_field) THEN [err |-> "none", data |-> data]
    ELSE WriteGradsSkipNone(out_field, grads, sign2, i + 1,
            IF grads[i].none THEN data
            ELSE (out_field[i] :> DictEntry("new", Scale(sign2, grads[i].val))) @@ data)

\* lines 88-93: store the signed gradients; a None gradient raises
RECURSIVE WriteGrads(_, _, _, _, _)
WriteGrads(out_field, grads, sign2, i, data) ==
    IF i > Len(out_field) THEN [err |-> "none", data |-> data]
    ELSE IF grads[i].none THEN [err |-> "RuntimeError", data |-> data]
    ELSE WriteGrads(out_field, grads, sign2, i + 1,
                    (out_field[i] :> DictEntry("new", Scale(sign2, grads[i].val))) @@ data)

\* lines 96-97: data[k].requires_grad_(req_grad) on whatever data[k] now is
RECURSIVE RestoreRequiresGrad(_, _, _, _, _)
RestoreRequiresGrad(wrt, old, i, data, flags) ==
    IF i > Len(wrt) THEN flags
    ELSE RestoreRequiresGrad(wrt, old, i + 1, data,
            IF data[wrt[i]].obj = "in"
            THEN [flags EXCEPT ![wrt[i]] = old[i]]
            ELSE flags)

NoData == [k \in {} |-> DictEntry("new", [b \in Examples |-> 0])]

\* lines 66-99; the result is [result, flags, data]
Forward(w, flags, x, m) ==
    LET set == SetRequiresGrad(w.wrt, 1, flags, <<>>)
        out == FuncOutput(m, x)
        grads == Autograd(m, x, w.wrt)
        wr == WriteGrads(w.out_field, grads, w.sign2, 1, out)
    IN  IF m.fault = "raise"
        THEN [result |-> "ModelError", flags |-> set.flags, data |-> NoData]
        ELSE IF w.of \notin DOMAIN out
        THEN [result |-> "KeyError", flags |-> set.flags, data |-> NoData]
        ELSE IF m.engine = "raise" /\ \E i \in 1..Len(w.wrt) : grads[i].none
        THEN [result |-> "AutogradError", flags |-> set.flags, data |-> NoData]
        ELSE IF wr.err # "none"
        THEN [result |-> wr.err, flags |-> set.flags, data |-> NoData]
        ELSE [result |-> "ok",
              flags  |-> RestoreRequiresGrad(w.wrt, set.old, 1, wr.data, set.flags),
              data   |-> wr.data]

(***************************************************************************)
(* The wrapper's state machine.                                            *)
(***************************************************************************)
OutNames == {"forces", "pos"}

SignArgs == [t : {"int", "float"}, v2 : {0 - 4, 0 - 2, 0, 2, 4}]
                \cup [t : {"float"}, v2 : {0 - 1, 1}]

WrtArgs == [t : {"str"}, v : [1..1 -> InKeys]]
               \cup [t : {"list"}, v : SeqsUpTo(InKeys, MaxWrt)]

OutFieldArgs == {[t |-> "none", v |-> <<>>], [t |-> "str", v |-> <<"forces">>]}
                    \cup [t : {"list"}, v : SeqsUpTo(OutNames, MaxWrt)]

CtorArgs == [of : {OF_KEY}, wrt : WrtArgs, out_field : OutFieldArgs, sign : SignArgs]

NoModel == [fault |-> "none", uses |-> {}, engine |-> "raise"]

Models == {[fault |-> "raise", uses |-> {}, engine |-> "raise"],
           [fault |-> "no_of", uses |-> {}, engine |-> "raise"]}
              \cup [fault : {"none"}, uses : SUBSET InKeys, engine : {"raise", "none"}]

GradInit ==
    /\ ctor_args \in CtorArgs
    /\ wrapper = NoWrapper
    /\ ctor_error = "pending"
    /\ inputs \in [InKeys -> {<<2, 1>>}]
    /\ requires_grad = [k \in InKeys |-> FALSE]
    /\ pre_requires_grad = [k \in InKeys |-> FALSE]
    /\ fwd_result = "none"
    /\ fwd_m = NoModel
    /\ fwd_data = NoData

\* GradientOutput(func, of, wrt, out_field, sign)
Construct ==
    /\ ctor_error = "pending"
    /\ LET r == GradientOutputInit(ctor_args)
       IN  /\ wrapper' = r.w
           /\ ctor_error' = r.err
    /\ UNCHANGED <<ctor_args, inputs, requires_grad, pre_requires_grad, fwd_result, fwd_m, fwd_data, metricsVars>>

\* between calls the caller changes the requires_grad flag of an input tensor
CallerSetsFlag ==
    /\ ctor_error = "none"
    /\ \E k \in InKeys :
          requires_grad' = [requires_grad EXCEPT ![k] = ~requires_grad[k]]
    /\ pre_requires_grad' = requires_grad'
    /\ fwd_result' = "none"
    /\ fwd_m' = NoModel
    /\ fwd_data' = NoData
    /\ UNCHANGED <<ctor_args, wrapper, ctor_error, inputs, metricsVars>>

\* between calls the caller loads new values into an input tensor
CallerSetsValue ==
    /\ ctor_error = "none"
    /\ \E k \in InKeys, t \in Tensors :
          /\ t # inputs[k]
          /\ inputs' = [inputs EXCEPT ![k] = t]
    /\ pre_requires_grad' = requires_grad
    /\ fwd_result' = "none"
    /\ fwd_m' = NoModel
    /\ fwd_data' = NoData
    /\ UNCHANGED <<ctor_args, wrapper, ctor_error, requires_grad, metricsVars>>

\* wrapper(data), data the dictionary of the caller's input tensors
ForwardCall ==
    /\ ctor_error = "none"
    /\ \E m \in Models :
          LET r == Forward(wrapper, requires_grad, inputs, m)
          IN  /\ pre_requires_grad' = requires_grad
              /\ requires_grad' = r.flags
              /\ fwd_result' = r.result
              /\ fwd_m' = m
              /\ fwd_data' = r.data
    /\ UNCHANGED <<ctor_args, wrapper, ctor_error, inputs, metricsVars>>

GradNext == Construct \/ CallerSetsFlag \/ CallerSetsValue \/ ForwardCall

(***************************************************************************)
(* Metrics: component specs.                                               *)
(* A component spec is [t, v]: t is "str" for a bare key name and "tuple"  *)
(* for a sequence; v holds the elements (key, reduction, options, extra).  *)
(* Options are a record with any of the fields functional, PerSpecies,     *)
(* report_per_component.                                                   *)
(***************************************************************************)
\* line 12: metrics_to_reduction
metrics_to_reduction(reduction) ==
    CASE reduction = "mae"  -> "MEAN"
      [] reduction = "rmse" -> "RMS"
      [] OTHER -> reduction

NoParams == [o \in {} |-> TRUE]

Pop(params, name) == [o \in DOMAIN params \ {name} |-> params[o]]

Get(params, name, default) == IF name \in DOMAIN params THEN params[name] ELSE default

ParseNoSingleton(component) ==
    IF component.t = "str"
    THEN [err |-> "none", key |-> component.v[1], reduction |-> "mae", params |-> NoParams]
    ELSE IF Len(component.v) = 2
    THEN [err |-> "none", key |-> component.v[1], reduction |-> component.v[2],
          params |-> NoParams]
    ELSE IF Len(component.v) = 3
    THEN [err |-> "none", key |-> component.v[1], reduction |-> component.v[2],
          params |-> component.v[3]]
    ELSE [err |-> "ValueError", key |-> "", reduction |-> "", params |-> NoParams]

\* lines 98-116: Metrics.parse
Parse(component) ==
    IF component.t = "str"
    THEN [err |-> "none", key |-> component.v[1], reduction |-> "mae", params |-> NoParams]
    ELSE IF Len(component.v) = 1
    THEN [err |-> "none", key |-> component.v[1], reduction |-> "mae", params |-> NoParams]
    ELSE IF Len(component.v) = 2
    THEN [err |-> "none", key |-> component.v[1], reduction |-> component.v[2],
          params |-> NoParams]
    ELSE IF Len(component.v) = 3
    THEN [err |-> "none", key |-> component.v[1], reduction |-> component.v[2],
          params |-> component.v[3]]
    ELSE [err |-> "ValueError", key |-> "", reduction |-> "", params |-> NoParams]

\* a Metrics instance before any statistic exists (lines 53-56)
EmptyDict == [k \in {} |-> [r \in {} |-> TRUE]]

NoMetrics ==
    [funcs |-> [k \in {} |-> ""], kwargs |-> EmptyDict, per_species |-> EmptyDict,
     running_stats |-> EmptyDict]

AddComponentFlagPerKey(self, c) ==
    LET functional  == Get(c.params, "functional", "L1Loss")
        per_species == Get(c.params, "PerSpecies", FALSE)
        params      == Pop(Pop(c.params, "functional"), "PerSpecies")
        fresh       == c.key \notin DOMAIN self.running_stats
        old_kwargs  == IF fresh THEN [r \in {} |-> TRUE] ELSE self.kwargs[c.key]
        kw == params @@ [reduction |-> metrics_to_reduction(c.reduction)]
    IN  [funcs         |-> IF fresh THEN (c.key :> functional) @@ self.funcs ELSE self.funcs,
         kwargs        |-> (c.key :> ((c.reduction :> kw) @@ old_kwargs)) @@ self.kwargs,
         per_species   |-> (c.key :> [r \in DOMAIN old_kwargs \cup {c.reduction} |->
                                         per_species]) @@ self.per_species,
         running_stats |-> (c.key :> [r \in {} |-> TRUE]) @@ self.running_stats]

AddComponentLastFunctional(self, c) ==
    LET functional  == Get(c.params, "functional", "L1Loss")
        per_species == Get(c.params, "PerSpecies", FALSE)
        params      == Pop(Pop(c.params, "functional"), "PerSpecies")
        fresh       == c.key \notin DOMAIN self.running_stats
        old_kwargs  == IF fresh THEN [r \in {} |-> TRUE] ELSE self.kwargs[c.key]
        old_flags   == IF fresh THEN [r \in {} |-> TRUE] ELSE self.per_species[c.key]
        kw == params @@ [reduction |-> metrics_to_reduction(c.reduction)]
    IN  [funcs         |-> (c.key :> functional) @@ self.funcs,
         kwargs        |-> (c.key :> ((c.reduction :> kw) @@ old_kwargs)) @@ self.kwargs,
         per_species   |-> (c.key :> ((c.reduction :> per_species) @@ old_flags))
                               @@ self.per_species,
         running_stats |-> (c.key :> [r \in {} |-> TRUE]) @@ self.running_stats]

\* lines 59-81: one round of the loop over components
AddComponent(self, c) ==
    LET functional  == Get(c.params, "functional", "L1Loss")
        per_species == Get(c.params, "PerSpecies", FALSE)
        params      == Pop(Pop(c.params, "functional"), "PerSpecies")
        fresh       == c.key \notin DOMAIN self.running_stats
        s1 == IF fresh
              THEN [funcs         |-> (c.key :> functional) @@ self.funcs,
                    kwargs        |-> (c.key :> [r \in {} |-> TRUE]) @@ self.kwargs,
                    per_species   |-> (c.key :> [r \in {} |-> TRUE]) @@ self.per_species,
                    running_stats |-> (c.key :> [r \in {} |-> TRUE]) @@ self.running_stats]
              ELSE self
        kw == params @@ [reduction |-> metrics_to_reduction(c.reduction)]
    IN  [s1 EXCEPT
            !.kwargs      = (c.key :> ((c.reduction :> kw) @@ s1.kwargs[c.key])) @@ s1.kwargs,
            !.per_species = (c.key :> ((c.reduction :> per_species) @@ s1.per_species[c.key]))
                                @@ s1.per_species]

\* lines 49-81: Metrics.__init__; the result is [err, self]
RECURSIVE MetricsInit(_, _, _)
MetricsInit(components, i, self) ==
    IF i > Len(components) THEN [err |-> "none", self |-> self]
    ELSE LET c == Parse(components[i])
         IN  IF c.err # "none" THEN [err |-> c.err, self |-> NoMetrics]
             ELSE MetricsInit(components, i + 1, AddComponent(self, c))

(***************************************************************************)
(* Tensors of the metrics engine: [rank, rows].  A rank-1 tensor of N      *)
(* elements has N rows of one element; a rank-2 tensor [N, D] has N rows   *)
(* of D elements.                                                          *)
(***************************************************************************)
Shape(t) == IF t.rank = 1 THEN <<Len(t.rows)>> ELSE <<Len(t.rows), Len(t.rows[1])>>

RECURSIVE Concat(_, _)
Concat(rows, i) == IF i > Len(rows) THEN <<>> ELSE rows[i] \o Concat(rows, i + 1)

\* error.flatten()
Flatten(t) ==
    LET all == Concat(t.rows, 1)
    IN  [rank |-> 1, rows |-> [i \in 1..Len(all) |-> <<all[i]>>]]

RECURSIVE SumTo(_, _)
SumTo(f, n) == IF n = 0 THEN 0 ELSE f[n] + SumTo(f, n - 1)

RECURSIVE ProdTo(_, _)
ProdTo(f, n) == IF n = 0 THEN 1 ELSE f[n] * ProdTo(f, n - 1)

Abs(v) == IF v < 0 THEN 0 - v ELSE v

(***************************************************************************)
(* The error function of a key (nequip.train._loss.find_loss_function,     *)
(* called with mean=False): the elementwise loss of pred[key] against      *)
(* ref[key].                                                               *)
(***************************************************************************)
LossElement(functional, p, r) ==
    IF functional = "MSELoss" THEN (p - r) * (p - r) ELSE Abs(p - r)

Loss(functional, pred, ref, key) ==
    [rank |-> pred[key].rank,
     rows |-> [i \in 1..Len(pred[key].rows) |->
                 [c \in 1..Len(pred[key].rows[i]) |->
                     LossElement(functional, pred[key].rows[i][c], ref[key].rows[i][c])]]]

(***************************************************************************)
(* The running statistic (torch_runstats.RunningStats).  Its state is, per *)
(* bin and per output element, the running mean (of the squares for RMS)   *)
(* as an exact fraction [num, den], and per bin the number n of samples.   *)
(***************************************************************************)
RECURSIVE GCD(_, _)
GCD(a, b) == IF b = 0 THEN a ELSE GCD(b, a % b)

Frac(num, den) ==
    LET g == GCD(Abs(num), den)
    IN  [num |-> num \div g, den |-> den \div g]

Zero == [num |-> 0, den |-> 1]

FracAdd(a, b) == Frac(a.num * b.den + b.num * a.den, a.den * b.den)

\* (new_sum - N * state) / (n + N)
Increment(state, n, new_sum, N) ==
    Frac(new_sum * state.den - N * state.num, state.den * (n + N))

RECURSIVE KeepDims(_, _, _, _)
KeepDims(dim, reduce_dims, i, keep) ==
    IF i > Len(dim) THEN <<>>
    ELSE (IF ((i - 1) \in Range(reduce_dims)) = keep THEN <<>> ELSE <<dim[i]>>)
             \o KeepDims(dim, reduce_dims, i + 1, keep)

\* RunningStats(dim, reduction, reduce_dims)
RunningStats(kwargs, device) ==
    LET dim == kwargs["dim"]
        reduce_dims == Get(kwargs, "reduce_dims", <<>>)
        output_dim == KeepDims(dim, reduce_dims, 1, TRUE)
        reduced == KeepDims(dim, reduce_dims, 1, FALSE)
    IN  [reduction  |-> kwargs["reduction"],
         dim        |-> dim,
         output_dim |-> output_dim,
         factor     |-> ProdTo(reduced, Len(reduced)),
         device     |-> device,
         n          |-> <<0>>,
         state      |-> <<[e \in 1..ProdTo(output_dim, Len(output_dim)) |-> Zero]>>]

NoBins == [none |-> TRUE, idx |-> <<>>]

Max(a, b) == IF a > b THEN a ELSE b

RECURSIVE MaxTo(_, _)
MaxTo(f, n) == IF n = 0 THEN 0 ELSE Max(f[n], MaxTo(f, n - 1))

\* RunningStats.accumulate_batch(batch, accumulate_by): the statistic afterwards
AccumulateBatch(stat, batch, accumulate_by) ==
    LET rows == batch.rows
        bin(i) == IF accumulate_by.none THEN 1 ELSE accumulate_by.idx[i] + 1
        nbins == Max(Len(stat.n),
                     IF accumulate_by.none THEN 1
                     ELSE MaxTo(accumulate_by.idx, Len(accumulate_by.idx)) + 1)
        nout == Len(stat.state[1])
        sq(v) == IF stat.reduction = "RMS" THEN v * v ELSE v
        collapsed == Len(stat.output_dim) < Len(stat.dim)
        part(i, e) == IF collapsed
                      THEN SumTo([c \in 1..Len(rows[i]) |-> sq(rows[i][c])], Len(rows[i]))
                      ELSE sq(rows[i][e])
        new_sum(j, e) == SumTo([i \in 1..Len(rows) |-> IF bin(i) = j THEN part(i, e) ELSE 0],
                               Len(rows))
        N(j) == Cardinality({i \in 1..Len(rows) : bin(i) = j}) * stat.factor
        old_n(j) == IF j <= Len(stat.n) THEN stat.n[j] ELSE 0
        old_state(j, e) == IF j <= Len(stat.n) THEN stat.state[j][e] ELSE Zero
    IN  [stat EXCEPT
            !.n = [j \in 1..nbins |-> old_n(j) + N(j)],
            !.state = [j \in 1..nbins |->
                         [e \in 1..nout |->
                             IF old_n(j) + N(j) = 0 THEN Zero
                             ELSE FracAdd(old_state(j, e),
                                          Increment(old_state(j, e), old_n(j),
                                                    new_sum(j, e), N(j)))]]]

\* RunningStats.reset()
StatReset(stat) ==
    [stat EXCEPT !.n = [j \in 1..Len(stat.n) |-> 0],
                 !.state = [j \in 1..Len(stat.n) |-> [e \in 1..Len(stat.state[1]) |-> Zero]]]

\* RunningStats.to(device)
StatTo(stat, device) == [stat EXCEPT !.device = device]

\* RunningStats.current_result(): per bin and output element the mean, or for RMS
\* the square root of the mean square, [root |-> TRUE, num, den]
StatCurrentResult(stat) ==
    [j \in 1..Len(stat.n) |->
        [e \in 1..Len(stat.state[1]) |->
            [root |-> stat.reduction = "RMS",
             num  |-> stat.state[j][e].num,
             den  |-> stat.state[j][e].den]]]

(***************************************************************************)
(* Metrics: accumulation and reporting.                                    *)
(***************************************************************************)
SPECIES_INDEX_KEY == "species_index"

\* tuple(range(n))
RangeTuple(n) == [i \in 1..n |-> i - 1]

\* lines 83-95: init_runstat
InitRunstat(params, error) ==
    LET k1 == IF "dim" \in DOMAIN params THEN params
              ELSE ("dim" :> Tail(Shape(error))) @@ params
        k2 == IF "reduce_dims" \in DOMAIN k1 THEN k1
              ELSE IF ~Get(k1, "report_per_component", FALSE)
                   THEN ("reduce_dims" :> RangeTuple(Len(Shape(error)) - 1))
                            @@ Pop(k1, "report_per_component")
                   ELSE Pop(k1, "report_per_component")
    IN  RunningStats(k2, "cpu")

ZeroLike(t) == [t EXCEPT !.rows = [i \in 1..Len(t.rows) |-> [c \in 1..Len(t.rows[i]) |-> 0]]]

ErrorOfIgnoresRef(self, pred, ref, key) ==
    Loss(self.funcs[key], pred, [k \in {key} |-> ZeroLike(ref[key])], key)

\* lines 122-128: the error tensor of a key
ErrorOf(self, pred, ref, key) == Loss(self.funcs[key], pred, ref, key)

StatForAlwaysNew(self, key, reduction, error) ==
    InitRunstat(self.kwargs[key][reduction], error)

\* lines 133-138: the statistic of (key, reduction), made on first use
StatFor(self, key, reduction, error) ==
    IF reduction \in DOMAIN self.running_stats[key]
    THEN self.running_stats[key][reduction]
    ELSE InitRunstat(self.kwargs[key][reduction], error)

\* lines 140-150: accumulate the error of one key into one statistic
Accumulate(self, key, reduction, error, pred) ==
    LET stat == StatFor(self, key, reduction, error)
        params == IF self.per_species[key][reduction]
                  THEN [none |-> FALSE, idx |-> pred[SPECIES_INDEX_KEY]]
                  ELSE NoBins
    IN  IF stat.dim = <<>> /\ ~self.per_species[key][reduction]
        THEN AccumulateBatch(stat, Flatten(error), params)
        ELSE AccumulateBatch(stat, error, params)

\* lines 118-152: Metrics.__call__; the running statistics afterwards
Call(self, pred, ref) ==
    [key \in DOMAIN self.funcs |->
        [reduction \in DOMAIN self.kwargs[key] |->
            Accumulate(self, key, reduction, ErrorOf(self, pred, ref, key), pred)]]

ResetFirstOnly(self) ==
    [key \in DOMAIN self.running_stats |->
        [reduction \in DOMAIN self.running_stats[key] |->
            IF reduction = "mae" /\ key = "forces"
            THEN StatReset(self.running_stats[key][reduction])
            ELSE self.running_stats[key][reduction]]]

ResetDropsStatistics(self) ==
    [key \in DOMAIN self.running_stats |-> [reduction \in {} |-> TRUE]]

\* lines 154-157: Metrics.reset
Reset(self) ==
    [key \in DOMAIN self.running_stats |->
        [reduction \in DOMAIN self.running_stats[key] |->
            StatReset(self.running_stats[key][reduction])]]

\* lines 159-162: Metrics.to
To(self, device) ==
    [key \in DOMAIN self.running_stats |->
        [reduction \in DOMAIN self.running_stats[key] |->
            StatTo(self.running_stats[key][reduction], device)]]

\* the (key, reduction) pairs that have a statistic
StatPairs(self) ==
    UNION {{<<key, reduction>> : reduction \in DOMAIN self.running_stats[key]} :
              key \in DOMAIN self.running_stats}

CurrentResultOneKey(self) ==
    [p \in {q \in StatPairs(self) : q[1] = "forces"} |->
        StatCurrentResult(self.running_stats[p[1]][p[2]])]

\* lines 164-170: Metrics.current_result
CurrentResult(self) ==
    [p \in StatPairs(self) |-> StatCurrentResult(self.running_stats[p[1]][p[2]])]

(***************************************************************************)
(* Metrics.flatten_metrics: the structured result as a flat dictionary of  *)
(* named scalars.  A name is the string the code's f-string builds.        *)
(***************************************************************************)
\* ABBREV of nequip.train._key
ABBREV == [forces |-> "f", total_energy |-> "e"]

\* ABBREV.get(key, key)
ShortName(key) == IF key \in DOMAIN ABBREV THEN ABBREV[key] ELSE key

\* f"{short_name}_{reduction}"
ItemName(key, reduction) == ShortName(key) \o "_" \o reduction

\* allowed_species=None
NoSpecies == [none |-> TRUE, labels |-> <<>>]

\* lines 188-192: list(range(value.shape[0])) or list(allowed_species), as the
\* f-string prints them
ElementNames(value, allowed_species) ==
    IF allowed_species.none THEN [j \in 1..Len(value) |-> ToString(j - 1)]
    ELSE allowed_species.labels

\* value.mean().item() of a per-species scalar statistic: the mean over the bins
MeanOverBins(value) == [mean_of |-> [j \in 1..Len(value) |-> value[j][1]]]

NoFlat == [n \in {} |-> Zero]

\* lines 195-198: per-species scalar statistic
FlattenSpeciesScalarNoAll(item_name, value, names) ==
    [n \in {names[j] \o "_" \o item_name : j \in 1..Len(value)} |->
        LET j == CHOOSE j \in 1..Len(value) : names[j] \o "_" \o item_name = n
        IN  value[j][1]]

FlattenSpeciesScalar(item_name, value, names) ==
    (("all_" \o item_name) :> MeanOverBins(value))
        @@ [n \in {names[j] \o "_" \o item_name : j \in 1..Len(value)} |->
               LET last == CHOOSE j \in 1..Len(value) :
                              /\ names[j] \o "_" \o item_name = n
                              /\ \A k \in (j + 1)..Len(value) :
                                    names[k] \o "_" \o item_name # n
               IN  value[last][1]]

\* lines 200-205: per-species non-scalar statistic, names in the order written
SpeciesVectorNames(item_name, value, names) ==
    Concat([j \in 1..Len(value) |->
               [e \in 1..Len(value[j]) |->
                   names[j] \o "_" \o item_name \o "_" \o ToString(e - 1)]], 1)

FlattenSpeciesVector(item_name, value, names) ==
    LET written == SpeciesVectorNames(item_name, value, names)
        D == Len(value[1])
    IN  [n \in Range(written) |->
            LET last == CHOOSE i \in 1..Len(written) :
                           /\ written[i] = n
                           /\ \A k \in (i + 1)..Len(written) : written[k] # n
            IN  value[((last - 1) \div D) + 1][((last - 1) % D) + 1]]

\* lines 213-214: enumerate(value.flatten())
FlattenVector(item_name, value) ==
    LET all == Concat(value, 1)
    IN  [n \in {item_name \o "_" \o ToString(i - 1) : i \in 1..Len(all)} |->
            all[CHOOSE i \in 1..Len(all) : item_name \o "_" \o ToString(i - 1) = n]]

\* lines 178-214: one round of the loop over metrics.items(); [err, flat, skip]
FlattenItem(self, k, value, allowed_species) ==
    LET key == k[1]
        reduction == k[2]
        item_name == ItemName(key, reduction)
        stat == self.running_stats[key][reduction]
        per_species == self.per_species[key][reduction]
        names == ElementNames(value, allowed_species)
    IN  IF per_species
        THEN IF Len(names) < Len(value)
             THEN [err |-> "IndexError", flat |-> NoFlat, skip |-> <<>>]
             ELSE IF stat.output_dim = <<>>
             THEN [err |-> "none", flat |-> FlattenSpeciesScalar(item_name, value, names),
                   skip |-> <<>>]
             ELSE [err |-> "none", flat |-> FlattenSpeciesVector(item_name, value, names),
                   skip |-> SpeciesVectorNames(item_name, value, names)]
        ELSE IF stat.output_dim = <<>>
             THEN [err |-> "none", flat |-> (item_name :> value[1][1]), skip |-> <<>>]
             ELSE [err |-> "none", flat |-> FlattenVector(item_name, value), skip |-> <<>>]

\* lines 172-215: Metrics.flatten_metrics; order is the iteration order of metrics
RECURSIVE FlattenMetrics(_, _, _, _, _, _)
FlattenMetrics(self, metrics, order, allowed_species, i, acc) ==
    IF i > Len(order) THEN acc
    ELSE LET r == FlattenItem(self, order[i], metrics[order[i]], allowed_species)
         IN  IF r.err # "none" THEN [err |-> r.err, flat |-> NoFlat, skip |-> <<>>]
             ELSE FlattenMetrics(self, metrics, order, allowed_species, i + 1,
                                 [err |-> "none", flat |-> r.flat @@ acc.flat,
                                  skip |-> acc.skip \o r.skip])

(***************************************************************************)
(* The metrics engine's state machine.                                     *)
(* An example is one row of a batch: its species index and, per key, the   *)
(* predicted and the reference value.  "forces" is a rank-2 tensor with    *)
(* two components per row, "total_energy" a rank-1 tensor.                 *)
(***************************************************************************)
MKeys == {"forces", "total_energy"}

ExampleSet ==
    {[species |-> 0, pred |-> [forces |-> <<0, 1>>, total_energy |-> <<1>>],
                     ref  |-> [forces |-> <<1, 1>>, total_energy |-> <<3>>]],
     [species |-> 1, pred |-> [forces |-> <<0, 2>>, total_energy |-> <<1>>],
                     ref  |-> [forces |-> <<0, 0>>, total_energy |-> <<1>>]],
     [species |-> 1, pred |-> [forces |-> <<1, 2>>, total_energy |-> <<2>>],
                     ref  |-> [forces |-> <<1, 2>>, total_energy |-> <<2>>]],
     [species |-> 0, pred |-> [forces |-> <<0, 0>>, total_energy |-> <<0>>],
                     ref  |-> [forces |-> <<0, 0>>, total_energy |-> <<0>>]]}

Batches == SeqsUpTo(ExampleSet, MaxBatch)

KeyRank(key) == IF key = "forces" THEN 2 ELSE 1

\* the prediction and the reference dictionary of a batch
DictOf(batch, side) ==
    [key \in MKeys |->
        [rank |-> KeyRank(key), rows |-> [i \in 1..Len(batch) |-> batch[i][side][key]]]]
    @@ (SPECIES_INDEX_KEY :> [i \in 1..Len(batch) |-> batch[i].species])

Str(k) == [t |-> "str", v |-> <<k>>]

Tup(v) == [t |-> "tuple", v |-> v]

ComponentLists ==
    {<<Str("forces")>>,
     <<Tup(<<"total_energy">>)>>,
     <<Tup(<<"forces", "rmse">>), Tup(<<"forces", "mae">>)>>,
     <<Tup(<<"forces", "rmse", [report_per_component |-> TRUE]>>)>>,
     <<Tup(<<"forces", "rmse", [PerSpecies |-> TRUE, functional |-> "L1Loss"]>>),
       Tup(<<"total_energy", "mae">>)>>,
     <<Tup(<<"forces", "mae", [functional |-> "MSELoss"]>>),
       Tup(<<"forces", "rmse", [functional |-> "L1Loss"]>>)>>,
     <<Tup(<<"forces", "mae", [PerSpecies |-> TRUE, report_per_component |-> TRUE]>>)>>,
     <<Tup(<<"total_energy", "rmse", [PerSpecies |-> TRUE]>>), Str("forces")>>,
     <<Tup(<<"forces", "rmse", [reduce_dims |-> <<>>]>>)>>,
     <<Str("forces"), Tup(<<"forces", "rmse", [functional |-> "MSELoss"]>>)>>,
     <<Tup(<<"forces", "mae", [PerSpecies |-> TRUE]>>),
       Tup(<<"forces", "rmse", [report_per_component |-> TRUE]>>)>>,
     <<Tup(<<"forces", "rmse", NoParams, "extra">>)>>,
     <<Tup(<<"forces", "mae">>), Tup(<<>>)>>}

NoResult == [valid |-> FALSE, value |-> [p \in {} |-> <<>>]]

NothingFlat == [err |-> "none", flat |-> NoFlat, skip |-> <<>>]

NotFlattened == [valid |-> FALSE, allowed_species |-> NoSpecies, out |-> NothingFlat]

\* the species labels a caller passes to flatten_metrics
AllowedSpecies ==
    {NoSpecies, [none |-> FALSE, labels |-> <<"H", "C">>], [none |-> FALSE, labels |-> <<"H">>]}

RECURSIVE Dedupe(_, _)
Dedupe(seq, i) ==
    IF i = 0 THEN <<>>
    ELSE LET front == Dedupe(seq, i - 1)
         IN  IF seq[i] \in Range(front) THEN front ELSE Append(front, seq[i])

\* the iteration order of the dictionaries of a Metrics instance: keys and, per key,
\* reductions in the order the components first name them
ItemsOrder(self, components) ==
    LET parsed == [i \in 1..Len(components) |-> Parse(components[i])]
        keys == Dedupe([i \in 1..Len(parsed) |-> parsed[i].key], Len(parsed))
        pairs == Concat([k \in 1..Len(keys) |->
                            SelectSeq([i \in 1..Len(parsed) |->
                                          <<parsed[i].key, parsed[i].reduction>>],
                                      LAMBDA q : q[1] = keys[k])], 1)
    IN  SelectSeq(Dedupe(pairs, Len(pairs)),
                  LAMBDA q : q[2] \in DOMAIN self.running_stats[q[1]])

NothingFed == [ex \in ExampleSet |-> 0]

FedSize == SumOver(ExampleSet, fed)

RECURSIVE Feed(_, _, _)
Feed(bag, batch, i) ==
    IF i > Len(batch) THEN bag
    ELSE Feed([bag EXCEPT ![batch[i]] = @ + 1], batch, i + 1)

MetricsInitState ==
    /\ m_components \in ComponentLists
    /\ m_error = "pending"
    /\ m_self = NoMetrics
    /\ m_result = NoResult
    /\ fed = NothingFed
    /\ calls_since = 0
    /\ after_reset = FALSE
    /\ ever_called = FALSE
    /\ m_flat = NotFlattened
    /\ m_solo = <<>>

\* Metrics(components)
MConstruct ==
    /\ m_error = "pending"
    /\ LET r == MetricsInit(m_components, 1, NoMetrics)
       IN  /\ m_error' = r.err
           /\ m_self' = r.self
           /\ m_solo' = IF r.err # "none" THEN <<>>
                        ELSE [i \in 1..Len(m_components) |->
                                 MetricsInit(<<m_components[i]>>, 1, NoMetrics).self]
    /\ UNCHANGED <<m_components, m_result, fed, calls_since, after_reset, ever_called,
                   m_flat, gradVars>>

\* metrics(pred, ref)
MCall ==
    /\ m_error = "none"
    /\ \E batch \in Batches :
          /\ FedSize + Len(batch) <= MaxFed
          /\ m_self' = [m_self EXCEPT
                           !.running_stats = Call(m_self, DictOf(batch, "pred"),
                                                  DictOf(batch, "ref"))]
          /\ m_solo' = [i \in 1..Len(m_solo) |->
                           [m_solo[i] EXCEPT
                               !.running_stats = Call(m_solo[i], DictOf(batch, "pred"),
                                                      DictOf(batch, "ref"))]]
          /\ fed' = Feed(fed, batch, 1)
    /\ calls_since' = calls_since + 1
    /\ ever_called' = TRUE
    /\ m_result' = NoResult
    /\ m_flat' = NotFlattened
    /\ UNCHANGED <<m_components, m_error, after_reset, gradVars>>

\* metrics.reset()
MReset ==
    /\ m_error = "none"
    /\ m_self' = [m_self EXCEPT !.running_stats = Reset(m_self)]
    /\ m_solo' = [i \in 1..Len(m_solo) |->
                     [m_solo[i] EXCEPT !.running_stats = Reset(m_solo[i])]]
    /\ fed' = NothingFed
    /\ calls_since' = 0
    /\ after_reset' = TRUE
    /\ m_result' = NoResult
    /\ m_flat' = NotFlattened
    /\ UNCHANGED <<m_components, m_error, ever_called, gradVars>>

\* metrics.to(device)
MTo ==
    /\ m_error = "none"
    /\ \E device \in {"cpu", "cuda"} :
          /\ m_self' = [m_self EXCEPT !.running_stats = To(m_self, device)]
          /\ m_solo' = [i \in 1..Len(m_solo) |->
                           [m_solo[i] EXCEPT !.running_stats = To(m_solo[i], device)]]
    /\ m_result' = NoResult
    /\ m_flat' = NotFlattened
    /\ UNCHANGED <<m_components, m_error, fed, calls_since, after_reset, ever_called, gradVars>>

\* metrics.current_result()
MCurrentResult ==
    /\ m_error = "none"
    /\ m_result' = [valid |-> TRUE, value |-> CurrentResult(m_self)]
    /\ m_flat' = NotFlattened
    /\ UNCHANGED <<m_components, m_error, m_self, fed, calls_since, after_reset,
                   ever_called, m_solo, gradVars>>

\* metrics.flatten_metrics(metrics.current_result(), allowed_species)
MFlatten ==
    /\ m_error = "none"
    /\ m_result.valid
    /\ \E allowed_species \in AllowedSpecies :
          m_flat' = [valid |-> TRUE, allowed_species |-> allowed_species,
                     out |-> FlattenMetrics(m_self, m_result.value,
                                            ItemsOrder(m_self, m_components),
                                            allowed_species, 1, NothingFlat)]
    /\ UNCHANGED <<m_components, m_error, m_self, m_result, fed, calls_since, after_reset,
                   ever_called, m_solo, gradVars>>

GradIdle ==
    /\ ctor_args = ForceOutputArgs
    /\ wrapper = NoWrapper
    /\ ctor_error = "pending"
    /\ inputs \in [InKeys -> {<<2, 1>>}]
    /\ requires_grad = [k \in InKeys |-> FALSE]
    /\ pre_requires_grad = [k \in InKeys |-> FALSE]
    /\ fwd_result = "none"
    /\ fwd_m = NoModel
    /\ fwd_data = NoData

MetricsIdle ==
    /\ m_components = <<Str("forces")>>
    /\ m_error = "pending"
    /\ m_self = NoMetrics
    /\ m_result = NoResult
    /\ fed = NothingFed
    /\ calls_since = 0
    /\ after_reset = FALSE
    /\ ever_called = FALSE
    /\ m_flat = NotFlattened
    /\ m_solo = <<>>

GradStart == GradInit /\ MetricsIdle

SpecGrad == GradStart /\ [][GradNext]_vars

MetricsStart == MetricsInitState /\ GradIdle

MetricsNext == MConstruct \/ MCall \/ MReset \/ MTo \/ MCurrentResult \/ MFlatten

SpecMetrics == MetricsStart /\ [][MetricsNext]_vars

(***************************************************************************)
(* Claims about GradientOutput, checked under SpecGrad.                    *)
(***************************************************************************)
Failed == fwd_result \notin {"none", "ok"}

FlagsRestored ==
    \A k \in Range(wrapper.wrt) : requires_grad[k] = pre_requires_grad[k]

\* C1 (as stated): after a forward() that returned, every wrt field's
\* requires_grad flag equals the value it had immediately before the call.
C1_RestoredOnSuccess == fwd_result = "ok" => FlagsRestored

\* C2 (as stated): when forward() exits with an error, every wrt field's
\* requires_grad flag equals its pre-call value.
C2_RestoredOnError == Failed => FlagsRestored

\* the inputs with element b of the tensor of field k moved by d
Shifted(k, b, d) == [inputs EXCEPT ![k][b] = @ + d]

\* d(sum(output[of]))/d(data[k][b]) by central difference on the wrapped model
\* (exact for the quadratic models drawn here)
Derivative(k, b) ==
    (TensorSum(FuncOutput(fwd_m, Shifted(k, b, 1))[OF_KEY].val)
       - TensorSum(FuncOutput(fwd_m, Shifted(k, b, 0 - 1))[OF_KEY].val)) \div 2

HoldsGradient(i) ==
    /\ wrapper.out_field[i] \in DOMAIN fwd_data
    /\ \A b \in Examples :
          fwd_data[wrapper.out_field[i]].val[b]
              = (IF wrapper.sign2 = 2 THEN 1 ELSE 0 - 1) * Derivative(wrapper.wrt[i], b)

OtherKeysUntouched ==
    LET out == FuncOutput(fwd_m, inputs)
    IN  /\ DOMAIN fwd_data = DOMAIN out \cup Range(wrapper.out_field)
        /\ \A k \in DOMAIN out \ Range(wrapper.out_field) : fwd_data[k] = out[k]

LastWriter(i) ==
    \A j \in 1..Len(wrapper.out_field) :
        j > i => wrapper.out_field[j] # wrapper.out_field[i]

\* C3 (as stated): the returned dictionary is the wrapped model's output with, for
\* every index i, out_field[i] = sign * d(sum(output[of]))/d(data[wrt[i]]), and
\* every other key of the wrapped model's output unchanged.
C3_GradientForEveryIndex ==
    fwd_result = "ok" =>
        /\ \A i \in 1..Len(wrapper.wrt) : HoldsGradient(i)
        /\ OtherKeysUntouched

\* C3 (amended): the same, for every index i whose out_field name is not repeated
\* at a later index; a repeated name holds the gradient of its last index.
C3_GradientForLastWriter ==
    fwd_result = "ok" =>
        /\ \A i \in 1..Len(wrapper.wrt) : LastWriter(i) => HoldsGradient(i)
        /\ OtherKeysUntouched

\* a successful call with two wrt fields, sign -1 and a gradient that is not zero
C3_Witness ==
    /\ fwd_result = "ok"
    /\ Len(wrapper.wrt) = 2
    /\ wrapper.wrt[1] # wrapper.wrt[2]
    /\ wrapper.out_field[1] # wrapper.out_field[2]
    /\ wrapper.sign2 = 0 - 2
    /\ fwd_data[wrapper.out_field[1]].val # fwd_data[wrapper.out_field[2]].val

SignIsUnit == ctor_args.sign.v2 \in {2, 0 - 2}

LengthsAgree ==
    ctor_args.out_field.t # "none" => Len(ctor_args.out_field.v) = Len(ctor_args.wrt.v)

\* C10: constructing with a sign other than +1 or -1 fails and creates no wrapper;
\* with sign +1 or -1, int or float, construction does not fail because of sign
\* (it fails only when out_field and wrt differ in length).
C10_SignValidated ==
    ctor_error # "pending" =>
        /\ ~SignIsUnit => (ctor_error = "AssertionError" /\ wrapper = NoWrapper)
        /\ (SignIsUnit /\ LengthsAgree) =>
              (ctor_error = "none" /\ wrapper.sign2 = ctor_args.sign.v2)

C10_Witness ==
    /\ ctor_error = "AssertionError"
    /\ ctor_args.sign = [t |-> "float", v2 |-> 1]
    /\ LengthsAgree

(***************************************************************************)
(* Claims about Metrics, checked under SpecMetrics.                        *)
(***************************************************************************)
\* the (key, reduction) pairs of the component list
ConfiguredPairs ==
    UNION {{<<key, reduction>> : reduction \in DOMAIN m_self.kwargs[key]} :
              key \in DOMAIN m_self.kwargs}

\* the error of example ex for a key, element by element
ErrVec(ex, key) ==
    [c \in 1..Len(ex.pred[key]) |->
        LossElement(m_self.funcs[key], ex.pred[key][c], ex.ref[key][c])]

\* the aggregate keeps the component axis: no axis is reduced by reduce_dims, or
\* report_per_component is set
PerComponent(p) ==
    LET kw == m_self.kwargs[p[1]][p[2]]
    IN  IF "reduce_dims" \in DOMAIN kw THEN kw["reduce_dims"] = <<>>
        ELSE Get(kw, "report_per_component", FALSE)

Grouped(p) == m_self.per_species[p[1]][p[2]]

\* the samples of example ex that count for bin j, output element e of pair p
Counts(p, ex, j) == ~Grouped(p) \/ ex.species = j - 1

Components(p, ex, e) == IF PerComponent(p) THEN {e} ELSE 1..Len(ex.pred[p[1]])

Sample(p, v) == IF p[2] = "rmse" THEN v * v ELSE v

\* sum and number of the samples in a bag of examples
SampleSum(p, bag, j, e) ==
    SumOver(ExampleSet,
        [ex \in ExampleSet |->
            IF Counts(p, ex, j)
            THEN bag[ex] * SumOver(Components(p, ex, e),
                                   [c \in Components(p, ex, e) |-> Sample(p, ErrVec(ex, p[1])[c])])
            ELSE 0])

SampleCount(p, bag, j, e) ==
    SumOver(ExampleSet,
        [ex \in ExampleSet |->
            IF Counts(p, ex, j) THEN bag[ex] * Cardinality(Components(p, ex, e)) ELSE 0])

\* value is the mean (for rmse: the root of the mean square) of those samples,
\* and 0 when there are none
IsStatisticOf(value, p, bag, j, e) ==
    /\ value.root = (p[2] = "rmse")
    /\ value.den > 0
    /\ IF SampleCount(p, bag, j, e) = 0 THEN value.num = 0
       ELSE value.num * SampleCount(p, bag, j, e) = value.den * SampleSum(p, bag, j, e)

\* the aggregate of pair p has the right shape and is the statistic of the bag
AggregateOf(p, bag) ==
    LET value == CurrentResult(m_self)[p]
        width == IF PerComponent(p) THEN Len((CHOOSE ex \in ExampleSet : TRUE).pred[p[1]]) ELSE 1
    IN  /\ Len(value) >= 1
        /\ ~Grouped(p) => Len(value) = 1
        /\ \A ex \in ExampleSet : (Grouped(p) /\ bag[ex] > 0) => ex.species + 1 <= Len(value)
        /\ \A j \in 1..Len(value) :
              /\ Len(value[j]) = width
              /\ \A e \in 1..width : IsStatisticOf(value[j][e], p, bag, j, e)

\* C4: the aggregate mae and rmse are the statistic of the examples fed since
\* construction or the last reset, whatever batches they arrived in: any two
\* partitions of the same examples into batches give the same aggregates.
C4_BatchPartitionInvariant ==
    m_error = "none" => \A p \in StatPairs(m_self) : AggregateOf(p, fed)

\* four examples fed in three batches, with an aggregate that is not zero
C4_Witness ==
    /\ calls_since = 3
    /\ FedSize = 4
    /\ \E p \in StatPairs(m_self) :
          \E j \in 1..Len(CurrentResult(m_self)[p]) : CurrentResult(m_self)[p][j][1].num # 0

IsEmptyStat(stat) ==
    /\ \A j \in 1..Len(stat.n) : stat.n[j] = 0
    /\ \A j \in 1..Len(stat.state) : \A e \in 1..Len(stat.state[j]) : stat.state[j][e] = Zero

C6_EntryForEveryConfiguredPair ==
    [][m_result'.valid =>
          /\ DOMAIN m_result'.value = ConfiguredPairs'
          /\ m_self' = m_self]_vars

\* C6 (amended): current_result() returns an entry for exactly the pairs whose
\* statistic has been constructed: none before the first __call__, every
\* configured pair afterwards; calling it changes no statistic.
C6_EntryForEveryConstructedPair ==
    [][m_result'.valid =>
          /\ DOMAIN m_result'.value =
                 (IF ever_called' THEN ConfiguredPairs' ELSE {})
          /\ \A p \in DOMAIN m_result'.value :
                 m_result'.value[p] = StatCurrentResult(m_self.running_stats[p[1]][p[2]])
          /\ m_self' = m_self]_vars

\* current_result() called after a __call__ on a two-pair configuration
C6_Witness ==
    /\ m_result.valid
    /\ ever_called
    /\ after_reset
    /\ Cardinality(DOMAIN m_result.value) = 2

\* C8: when pred[key] equals ref[key] in every accumulated batch, every value
\* reported for that key is 0.
C8_ZeroWhenEqual ==
    m_error = "none" =>
        \A key \in DOMAIN m_self.funcs :
            (\A ex \in ExampleSet : fed[ex] > 0 => ex.pred[key] = ex.ref[key]) =>
                \A reduction \in DOMAIN m_self.running_stats[key] :
                    LET value == CurrentResult(m_self)[<<key, reduction>>]
                    IN  \A j \in 1..Len(value) : \A e \in 1..Len(value[j]) :
                            value[j][e].num = 0

\* two batches of examples whose prediction for a key equals the reference
C8_Witness ==
    /\ calls_since = 2
    /\ \E key \in DOMAIN m_self.funcs :
          /\ m_self.running_stats[key] # [r \in {} |-> TRUE]
          /\ \A ex \in ExampleSet : fed[ex] > 0 => ex.pred[key] = ex.ref[key]
          /\ \E ex \in ExampleSet : fed[ex] > 0 /\ ex.pred[key] # <<0, 0>> /\ ex.pred[key] # <<0>>

Accepted(component) == component.t = "str" \/ Len(component.v) \in {2, 3}

AcceptedOrSingleton(component) == component.t = "str" \/ Len(component.v) \in {1, 2, 3}

AllOf(Ok(_)) == \A i \in 1..Len(m_components) : Ok(m_components[i])

\* what component i asks for: reduction "mae" and no options unless given
AsksFor(i) ==
    LET c == m_components[i]
    IN  [key       |-> c.v[1],
         reduction |-> IF c.t = "tuple" /\ Len(c.v) >= 2 THEN c.v[2] ELSE "mae",
         params    |-> IF c.t = "tuple" /\ Len(c.v) = 3 THEN c.v[3] ELSE NoParams]

Registered(i) ==
    LET a == AsksFor(i)
        last == \A j \in 1..Len(m_components) :
                    j > i => <<AsksFor(j).key, AsksFor(j).reduction>> # <<a.key, a.reduction>>
    IN  /\ <<a.key, a.reduction>> \in ConfiguredPairs
        /\ last =>
              /\ m_self.per_species[a.key][a.reduction] = Get(a.params, "PerSpecies", FALSE)
              /\ \A o \in DOMAIN a.params \ {"functional", "PerSpecies"} :
                     /\ o \in DOMAIN m_self.kwargs[a.key][a.reduction]
                     /\ m_self.kwargs[a.key][a.reduction][o] = a.params[o]
              /\ DOMAIN m_self.kwargs[a.key][a.reduction]
                     = {"reduction"} \cup (DOMAIN a.params \ {"functional", "PerSpecies"})

\* C9 (as stated): a component list is accepted exactly when every spec is a bare
\* key name, (key, reduction) or (key, reduction, options); reduction defaults to
\* "mae" and options to none; otherwise construction fails and there is no instance.
C9_AcceptsExactlyThreeForms ==
    m_error # "pending" =>
        /\ (m_error = "none") = AllOf(Accepted)
        /\ m_error = "none" => \A i \in 1..Len(m_components) : Registered(i)
        /\ m_error # "none" => (m_error = "ValueError" /\ m_self = NoMetrics)

\* C9 (amended): the same, with the one-element tuple (key,) accepted as well and
\* read like the bare key name; the empty tuple and tuples longer than 3 fail.
C9_AcceptsUpToThree ==
    m_error # "pending" =>
        /\ (m_error = "none") = AllOf(AcceptedOrSingleton)
        /\ m_error = "none" => \A i \in 1..Len(m_components) : Registered(i)
        /\ m_error # "none" => (m_error = "ValueError" /\ m_self = NoMetrics)

\* a list with a four-element tuple was refused
C9_Witness ==
    /\ m_error = "ValueError"
    /\ \E i \in 1..Len(m_components) : Len(m_components[i].v) = 4

(***************************************************************************)
(* Claims about flatten_metrics, checked under SpecMetrics.                *)
(***************************************************************************)
Flattened == m_flat.valid /\ m_flat.out.err = "none"

IsScalarStat(p) == m_self.running_stats[p[1]][p[2]].output_dim = <<>>

IsPerSpecies(p) == m_self.per_species[p[1]][p[2]]

\* "{abbreviated_key}_{reduction}"
BaseName(p) == ShortName(p[1]) \o "_" \o p[2]

\* the species label of bin j
SpeciesLabel(j) ==
    IF m_flat.allowed_species.none THEN ToString(j - 1)
    ELSE m_flat.allowed_species.labels[j]

\* the name and the value of every component of bin j of a pair's statistic
ComponentEntries(p, j, prefix) ==
    LET value == m_result.value[p]
    IN  IF IsScalarStat(p) THEN {<<prefix \o BaseName(p), value[j][1]>>}
        ELSE {<<prefix \o BaseName(p) \o "_" \o ToString(e - 1), value[j][e]>> :
                 e \in 1..Len(value[j])}

AllEntry(p) ==
    LET value == m_result.value[p]
    IN  <<"all_" \o BaseName(p), [mean_of |-> [j \in 1..Len(value) |-> value[j][1]]]>>

\* the entries the naming rule gives a pair; all_for says which per-species pairs
\* get the "all_" entry
EntriesOf(p, all_for) ==
    IF IsPerSpecies(p)
    THEN UNION {ComponentEntries(p, j, SpeciesLabel(j) \o "_") :
                   j \in 1..Len(m_result.value[p])}
             \cup (IF p \in all_for THEN {AllEntry(p)} ELSE {})
    ELSE ComponentEntries(p, 1, "")

FlatEntries == {<<n, m_flat.out.flat[n]>> : n \in DOMAIN m_flat.out.flat}

\* C11 (as stated): the flat dictionary has "{key}_{reduction}" for a scalar and
\* "{key}_{reduction}_{i}" per component of a non-scalar statistic; a per-species
\* pair has every entry prefixed by the species label and one more entry
\* "all_{key}_{reduction}", for scalar and non-scalar statistics alike.
C11_AllEntryForEveryPerSpeciesPair ==
    Flattened =>
        FlatEntries = UNION {EntriesOf(p, DOMAIN m_result.value) : p \in DOMAIN m_result.value}

\* C11 (amended): as stated, but the "all_{key}_{reduction}" entry exists only for a
\* per-species pair whose statistic is scalar; for a non-scalar per-species
\* statistic there is none, and its entries' names are what the skip list holds.
C11_AllEntryForScalarPerSpeciesPair ==
    Flattened =>
        /\ FlatEntries =
              UNION {EntriesOf(p, {q \in DOMAIN m_result.value : IsScalarStat(q)}) :
                        p \in DOMAIN m_result.value}
        /\ Range(m_flat.out.skip) =
              {e[1] : e \in UNION {EntriesOf(p, {}) :
                                      p \in {q \in DOMAIN m_result.value :
                                                IsPerSpecies(q) /\ ~IsScalarStat(q)}}}

\* a per-species scalar pair with two species and a plain pair flattened with
\* given species labels
C11_Witness ==
    /\ Flattened
    /\ ~m_flat.allowed_species.none
    /\ \E p \in DOMAIN m_result.value :
          /\ IsPerSpecies(p) /\ IsScalarStat(p)
          /\ Len(m_result.value[p]) = 2
          /\ ("all_" \o BaseName(p)) \in DOMAIN m_flat.out.flat
    /\ \E p \in DOMAIN m_result.value : ~IsPerSpecies(p)
    /\ calls_since > 0

(***************************************************************************)
(* Further claims about GradientOutput, checked under SpecGrad.            *)
(***************************************************************************)
\* the wrapped model ran and its output does not depend on wrt[i]
GradientUndefined(i) == wrapper.wrt[i] \notin fwd_m.uses

ForwardRan == fwd_result # "none" /\ fwd_m.fault = "none"

\* C12: when the gradient with respect to some wrt field is undefined, forward
\* raises (the engine's or its own RuntimeError) and returns nothing; a returned
\* dictionary has every out_field key, each holding a defined gradient.
C12_UndefinedGradientFails ==
    /\ (ForwardRan /\ \E i \in 1..Len(wrapper.wrt) : GradientUndefined(i)) =>
          /\ fwd_result \in {"RuntimeError", "AutogradError"}
          /\ fwd_data = NoData
    /\ fwd_result = "ok" =>
          \A i \in 1..Len(wrapper.wrt) :
              /\ ~GradientUndefined(i)
              /\ wrapper.out_field[i] \in DOMAIN fwd_data
              /\ fwd_data[wrapper.out_field[i]].obj = "new"
              /\ fwd_data[wrapper.out_field[i]].val \in [Examples -> Int]

\* forward raised its own error at the second field, after the first field's
\* gradient was defined
C12_Witness ==
    /\ fwd_result = "RuntimeError"
    /\ Len(wrapper.wrt) = 2
    /\ ~GradientUndefined(1)
    /\ GradientUndefined(2)
    /\ fwd_m.engine = "none"

(***************************************************************************)
(* Further claims about Metrics, checked under SpecMetrics.                *)
(***************************************************************************)
HasStat(self, p) ==
    p[1] \in DOMAIN self.running_stats /\ p[2] \in DOMAIN self.running_stats[p[1]]

\* the shape of one example's error for a key: the batch axis left out
ExampleShape(key) ==
    IF KeyRank(key) = 1 THEN <<>>
    ELSE <<Len((CHOOSE ex \in ExampleSet : TRUE).pred[key])>>

\* the aggregate's shape the options of a pair ask for, given the declared shape
AskedOutputDim(self, p, dim) ==
    LET kw == self.kwargs[p[1]][p[2]]
    IN  IF "reduce_dims" \in DOMAIN kw
        THEN (IF kw["reduce_dims"] = <<>> THEN dim ELSE <<>>)
        ELSE IF "report_per_component" \in DOMAIN kw /\ kw["report_per_component"]
        THEN dim ELSE <<>>

\* C13: a statistic comes into being only in the first __call__, with the shape of
\* that call's error (no dim is configured here) and the aggregate shape its
\* options ask for; once it exists, every __call__, reset and to keeps it: its
\* declared and aggregate shape and its reduction stay, a __call__ or reset leaves
\* it on its device, and a __call__ only adds to its counts.
C13_StatisticConstructedOnceAndKept ==
    [][/\ \A p \in ConfiguredPairs' :
             (HasStat(m_self', p) /\ ~HasStat(m_self, p)) =>
                 /\ ~ever_called /\ ever_called'
                 /\ m_self'.running_stats[p[1]][p[2]].dim = ExampleShape(p[1])
                 /\ m_self'.running_stats[p[1]][p[2]].output_dim
                        = AskedOutputDim(m_self', p, ExampleShape(p[1]))
       /\ \A p \in ConfiguredPairs :
             HasStat(m_self, p) =>
                 /\ HasStat(m_self', p)
                 /\ LET old == m_self.running_stats[p[1]][p[2]]
                        new == m_self'.running_stats[p[1]][p[2]]
                    IN  /\ new.dim = old.dim
                        /\ new.output_dim = old.output_dim
                        /\ new.reduction = old.reduction
                        /\ Len(new.n) >= Len(old.n)
                        /\ (calls_since' # calls_since) => new.device = old.device
                        /\ (calls_since' = calls_since + 1) =>
                               \A j \in 1..Len(old.n) : new.n[j] >= old.n[j]]_vars

\* a per-component statistic that was moved to another device, reset, and
\* accumulated into again
C13_Witness ==
    /\ after_reset
    /\ calls_since > 0
    /\ \E p \in ConfiguredPairs :
          /\ HasStat(m_self, p)
          /\ m_self.running_stats[p[1]][p[2]].device = "cuda"
          /\ m_self.running_stats[p[1]][p[2]].output_dim # <<>>
          /\ m_self.running_stats[p[1]][p[2]].n[1] > 0

\* the (key, reduction) pair component i registers
PairAt(i) == <<Parse(m_components[i]).key, Parse(m_components[i]).reduction>>

SeveralReductions(key) == Cardinality(DOMAIN m_self.kwargs[key]) > 1

\* no later component registers the same pair again
LastFor(i) == \A j \in (i + 1)..Len(m_components) : PairAt(j) # PairAt(i)

\* the per-species flag and the options of component i's pair are its own
OptionsAsAlone(i) ==
    LET p == PairAt(i)
    IN  /\ m_self.per_species[p[1]][p[2]] = m_solo[i].per_species[p[1]][p[2]]
        /\ m_self.kwargs[p[1]][p[2]] = m_solo[i].kwargs[p[1]][p[2]]

\* the statistic of component i's pair is what it is in a Metrics that was built
\* from component i alone and given the same calls
AggregateAsAlone(i) ==
    LET p == PairAt(i)
    IN  /\ HasStat(m_self, p) <=> HasStat(m_solo[i], p)
        /\ HasStat(m_self, p) =>
              /\ m_self.running_stats[p[1]][p[2]] = m_solo[i].running_stats[p[1]][p[2]]
              /\ CurrentResult(m_self)[p] = CurrentResult(m_solo[i])[p]

SameErrorFunction(i) == m_self.funcs[PairAt(i)[1]] = m_solo[i].funcs[PairAt(i)[1]]

\* C14 (as stated): with several reductions registered for a key, each reduction's
\* aggregate is what it would be were it the only one registered for the key, and
\* its per-species flag and options are its own.
C14_EveryReductionAsIfAlone ==
    m_error = "none" =>
        \A i \in 1..Len(m_components) :
            (SeveralReductions(PairAt(i)[1]) /\ LastFor(i)) =>
                OptionsAsAlone(i) /\ AggregateAsAlone(i)

\* C14 (amended): the per-species flag and the options are the pair's own; the
\* aggregate is what it would be alone when the component's error function is the
\* key's error function, the one of the first component listed for the key.
C14_AsIfAloneUnderTheKeysErrorFunction ==
    m_error = "none" =>
        \A i \in 1..Len(m_components) :
            (SeveralReductions(PairAt(i)[1]) /\ LastFor(i)) =>
                /\ OptionsAsAlone(i)
                /\ SameErrorFunction(i) => AggregateAsAlone(i)

\* two reductions of one key, one grouped by species and one not, after two calls
\* with errors that are not zero
C14_Witness ==
    /\ m_error = "none"
    /\ calls_since = 2
    /\ \E key \in DOMAIN m_self.kwargs :
          /\ SeveralReductions(key)
          /\ \E r1, r2 \in DOMAIN m_self.running_stats[key] :
                /\ m_self.per_species[key][r1] /\ ~m_self.per_species[key][r2]
                /\ Len(m_self.running_stats[key][r1].n) = 2
                /\ CurrentResult(m_self)[<<key, r1>>][2][1].num # 0
                /\ CurrentResult(m_self)[<<key, r2>>][1][1].num # 0

\* the functional option component i names, or the default
FunctionalAt(i) ==
    LET params == Parse(m_components[i]).params
    IN  IF "functional" \in DOMAIN params THEN params["functional"] ELSE "L1Loss"

\* the first component that names the key
FirstFor(key) ==
    CHOOSE i \in 1..Len(m_components) :
        /\ PairAt(i)[1] = key
        /\ \A j \in 1..(i - 1) : PairAt(j)[1] # key

\* C15: the error function of a key is the one the first component listed for the
\* key selects (L1Loss when it names none), whatever functional later components
\* of the key name and whatever is called afterwards; no functional option is
\* among the options kept for a statistic.
C15_FirstFunctionalWins ==
    m_error = "none" =>
        /\ \A key \in DOMAIN m_self.funcs : m_self.funcs[key] = FunctionalAt(FirstFor(key))
        /\ \A p \in ConfiguredPairs : "functional" \notin DOMAIN m_self.kwargs[p[1]][p[2]]
        /\ \A p \in StatPairs(m_self) :
              \A ex \in ExampleSet :
                  (fed[ex] = FedSize /\ FedSize > 0 /\ ~Grouped(p) /\ ~PerComponent(p)) =>
                      LET f == FunctionalAt(FirstFor(p[1]))
                          n == Len(ex.pred[p[1]])
                          value == CurrentResult(m_self)[p][1][1]
                          total == SumTo([c \in 1..n |->
                                            Sample(p, LossElement(f, ex.pred[p[1]][c],
                                                                  ex.ref[p[1]][c]))], n)
                      IN  value.num * n = value.den * total

\* a key whose later component names another functional than its first, after a
\* call with an error on which the two functions differ
C15_Witness ==
    /\ m_error = "none"
    /\ calls_since > 0
    /\ \E i \in 1..Len(m_components) :
          /\ FirstFor(PairAt(i)[1]) < i
          /\ FunctionalAt(i) # FunctionalAt(FirstFor(PairAt(i)[1]))
          /\ FunctionalAt(i) = "MSELoss"
          /\ HasStat(m_self, PairAt(i))
          /\ \E ex \in ExampleSet :
                /\ fed[ex] = FedSize
                /\ \E c \in 1..Len(ex.pred[PairAt(i)[1]]) :
                      Abs(ex.pred[PairAt(i)[1]][c] - ex.ref[PairAt(i)[1]][c]) > 1

====
